---- MODULE Spec2Model ----
(***************************************************************************)
(* Parking lot: PricingCalculator.calculate_fee (calculator.py) as a       *)
(* step-by-step state machine over its day loop, and ParkingSystem.park /  *)
(* ParkingSystem.pickup (parking_system.py) over the three ledgers.        *)
(*                                                                         *)
(* Time.  A datetime is [day, sec, us]: a day number (day 0 is a Monday,   *)
(* so weekday = day % 7), the second of that day and the microsecond.      *)
(* Inputs are at minute granularity (strptime with %Y-%m-%d %H:%M); the    *)
(* only other instants are the code's own time.max (23:59:59.999999) and   *)
(* time(23, 59, 59).                                                       *)
(*                                                                         *)
(* Money.  Amounts are exact, in mills (1/1000 of a dollar, 1/10 of a      *)
(* cent), so that a fraction of a cent is representable.  The code's       *)
(* floats carry errors of about 1e-15 on these values, which the final    *)
(* round(total_fee, 2) removes.                                           *)
(***************************************************************************)
EXTENDS Integers, Sequences, FiniteSets, TLC

VARIABLES
    \* PricingCalculator.calculate_fee: arguments, locals, return value
    arrival_dt, leave_dt, is_frequent_parker,
    pc, current_day, total_fee,
    day_start_dt, day_end_dt,
    overlap_start, overlap_end, hours_in_slot, fee,
    result,
    \* ParkingSystem: the three ledgers
    parked_cars, credits, history

calcVars == <<arrival_dt, leave_dt, is_frequent_parker, pc, current_day,
              total_fee, day_start_dt, day_end_dt, overlap_start,
              overlap_end, hours_in_slot, fee, result>>
sysVars == <<parked_cars, credits, history>>
vars == <<arrival_dt, leave_dt, is_frequent_parker, pc, current_day,
          total_fee, day_start_dt, day_end_dt, overlap_start,
          overlap_end, hours_in_slot, fee, result,
          parked_cars, credits, history>>

----------------------------------------------------------------------------
(* Bounds *)

\* A stay touches at most MaxStayDays + 1 calendar days.
MaxStayDays == 2

\* Minutes of the day at which a car may arrive or leave: the slot borders
\* and their neighbours, and whole and half hours inside each slot.
GridMinutes ==
    {0, 1, 60, 479, 480, 510, 540, 570, 630, 690, 720, 1019, 1020, 1080,
     1110, 1170, 1290, 1380, 1410, 1439}

----------------------------------------------------------------------------
(* Money *)

Dollars(n) == n * 1000
Cents(n) == n * 10

----------------------------------------------------------------------------
(* datetime *)

Dt(d, s, u) == [day |-> d, sec |-> s, us |-> u]
Tm(s, u) == [sec |-> s, us |-> u]

\* time(h, m)
TimeHM(h, m) == Tm(h * 3600 + m * 60, 0)
\* time.min and time.max
TimeMinOfDay == Tm(0, 0)
TimeMaxOfDay == Tm(23 * 3600 + 59 * 60 + 59, 999999)

\* datetime.combine(date, time)
Combine(d, t) == Dt(d, t.sec, t.us)
\* datetime.time()
TimeOf(dt) == Tm(dt.sec, dt.us)
\* date.weekday(), day 0 being a Monday
Weekday(d) == d % 7

TimeLeq(a, b) == a.sec < b.sec \/ (a.sec = b.sec /\ a.us <= b.us)
TimeMaxOf(a, b) == IF TimeLeq(a, b) THEN b ELSE a
TimeMinOf(a, b) == IF TimeLeq(a, b) THEN a ELSE b

DtLeq(a, b) ==
    a.day < b.day \/ (a.day = b.day /\ TimeLeq(TimeOf(a), TimeOf(b)))
DtLess(a, b) == DtLeq(a, b) /\ a # b
DtMaxOf(a, b) == IF DtLeq(a, b) THEN b ELSE a
DtMinOf(a, b) == IF DtLeq(a, b) THEN a ELSE b

\* (b - a) as whole seconds and remaining microseconds, for a <= b
DiffSec(a, b) ==
    LET s == (b.day - a.day) * 86400 + (b.sec - a.sec)
    IN  IF b.us >= a.us THEN s ELSE s - 1
DiffUs(a, b) == IF b.us >= a.us THEN b.us - a.us ELSE 1000000 + b.us - a.us

\* Faulty variant of RoundHours: a tie goes up (round half up)
RoundHoursHalfUp(s, u) ==
    LET q == s \div 3600
        r == s % 3600
    IN  IF r >= 1800 THEN q + 1 ELSE q

\* Faulty variant of RoundHours: the fraction is dropped, as int() does
RoundHoursFloor(s, u) == s \div 3600

\* round(x) of Python 3 on x = (s + u/10^6) / 3600: to the nearest integer,
\* a tie going to the even one
RoundHours(s, u) ==
    LET q == s \div 3600
        r == s % 3600
    IN  IF r > 1800 \/ (r = 1800 /\ u > 0) THEN q + 1
        ELSE IF r < 1800 THEN q
        ELSE IF q % 2 = 0 THEN q ELSE q + 1

\* round(x, 2) on an amount in mills: to the nearest cent, a tie to the even
Round2(m) ==
    LET q == m \div 10
        r == m % 10
    IN  IF r > 5 THEN (q + 1) * 10
        ELSE IF r < 5 THEN q * 10
        ELSE IF q % 2 = 0 THEN q * 10 ELSE (q + 1) * 10

----------------------------------------------------------------------------
(* PricingCalculator *)

\* RATES, keyed by weekday and then by slot
RATES ==
    [w \in 0..6 |->
        IF w <= 4 THEN
            ("08:00-16:59" :> [max_stay |-> 2, price_per_hour |-> Dollars(10)]) @@
            ("17:00-23:59" :> [max_stay |-> "Up to midnight",
                               price_per_hour |-> Dollars(5)]) @@
            ("00:00-07:59" :> [price_one_time |-> Dollars(20)])
        ELSE IF w = 5 THEN
            ("08:00-16:59" :> [max_stay |-> 4, price_per_hour |-> Dollars(3)]) @@
            ("17:00-23:59" :> [max_stay |-> "Up to midnight",
                               price_per_hour |-> Dollars(5)]) @@
            ("00:00-07:59" :> [price_one_time |-> Dollars(20)])
        ELSE
            ("08:00-16:59" :> [max_stay |-> 8, price_per_hour |-> Dollars(2)]) @@
            ("17:00-23:59" :> [max_stay |-> "Up to midnight",
                               price_per_hour |-> Dollars(5)]) @@
            ("00:00-07:59" :> [price_one_time |-> Dollars(20)])]

\* Faulty variant of ApplyDiscount: 17:00 itself is outside the 50% span
ApplyDiscountAfter17(price, current_time, freq) ==
    IF ~freq THEN price
    ELSE IF \/ (/\ TimeLeq(TimeHM(17, 0), TimeOf(current_time))
                /\ TimeHM(17, 0) # TimeOf(current_time))
            \/ ~TimeLeq(TimeHM(8, 0), TimeOf(current_time))
         THEN (price * 5) \div 10
         ELSE (price * 9) \div 10

\* _apply_discount(price, current_time), self.is_frequent_parker being freq
ApplyDiscount(price, current_time, freq) ==
    IF ~freq THEN price
    ELSE IF \/ TimeLeq(TimeHM(17, 0), TimeOf(current_time))
            \/ ~TimeLeq(TimeHM(8, 0), TimeOf(current_time))
         THEN (price * 5) \div 10
         ELSE (price * 9) \div 10

\* Faulty variants of DayStart and DayEnd: the stay is not cut to the day
DayStartUnclipped(arr, d) == arr
DayEndUnclipped(lv, d) == lv

\* day_start_dt and day_end_dt of calendar day d
DayStart(arr, d) == DtMaxOf(arr, Combine(d, TimeMinOfDay))
DayEnd(lv, d) == DtMinOf(lv, Combine(d, TimeMaxOfDay))

\* Faulty variant of Slot1Overlaps: < in the place of <=
Slot1OverlapsStrict(ds, de) ==
    LET a == TimeMaxOf(TimeOf(ds), TimeHM(0, 0))
        b == TimeMinOf(TimeOf(de), TimeHM(7, 59))
    IN  TimeLeq(a, b) /\ a # b

\* Slot 1, 00:00 - 07:59: the overlap test on times of day
Slot1Overlaps(ds, de) ==
    TimeLeq(TimeMaxOf(TimeOf(ds), TimeHM(0, 0)),
            TimeMinOf(TimeOf(de), TimeHM(7, 59)))

\* Slot 1: the flat fee before the discount
Slot1Fee(d) == RATES[Weekday(d)]["00:00-07:59"].price_one_time

\* Slot 1: what the day adds to total_fee
Slot1Charge(d, ds, de, freq) ==
    IF Slot1Overlaps(ds, de)
    THEN ApplyDiscount(Slot1Fee(d), Combine(d, TimeHM(1, 0)), freq)
    ELSE 0

\* Slot 2, 08:00 - 16:59
Slot2Start(d) == Combine(d, TimeHM(8, 0))
Slot2End(d) == Combine(d, TimeHM(16, 59))
\* Slot 3, 17:00 - 23:59:59
Slot3Start(d) == Combine(d, TimeHM(17, 0))
Slot3End(d) == Combine(d, Tm(23 * 3600 + 59 * 60 + 59, 0))

\* round((overlap_end - overlap_start).total_seconds() / 3600)
HoursInSlot(os, oe) == RoundHours(DiffSec(os, oe), DiffUs(os, oe))

\* Faulty variant of Slot2Fee: the hours beyond max_stay at the single price
Slot2FeeNoDouble(d, h) == h * RATES[Weekday(d)]["08:00-16:59"].price_per_hour

\* Faulty variant of Slot2Fee: (max_stay - hours) in the place of
\* (hours - max_stay)
Slot2FeeSwapped(d, h) ==
    LET rate_info == RATES[Weekday(d)]["08:00-16:59"]
        price_per_hour == rate_info.price_per_hour
        max_stay == rate_info.max_stay
    IN  IF h <= max_stay
        THEN h * price_per_hour
        ELSE (max_stay * price_per_hour) + ((max_stay - h) * price_per_hour * 2)

\* Faulty variant of Slot2Fee: beyond max_stay only the exceeded hours are
\* charged
Slot2FeeOverageOnly(d, h) ==
    LET rate_info == RATES[Weekday(d)]["08:00-16:59"]
        price_per_hour == rate_info.price_per_hour
        max_stay == rate_info.max_stay
    IN  IF h <= max_stay
        THEN h * price_per_hour
        ELSE (h - max_stay) * price_per_hour * 2

\* Slot 2: the fee of h > 0 hours before the discount, double beyond max_stay
Slot2Fee(d, h) ==
    LET rate_info == RATES[Weekday(d)]["08:00-16:59"]
        price_per_hour == rate_info.price_per_hour
        max_stay == rate_info.max_stay
    IN  IF h <= max_stay
        THEN h * price_per_hour
        ELSE (max_stay * price_per_hour) + ((h - max_stay) * price_per_hour * 2)

\* Slot 3: the fee of h > 0 hours before the discount
Slot3Fee(d, h) == h * RATES[Weekday(d)]["17:00-23:59"].price_per_hour

\* Slot 2: what the day adds to total_fee
Slot2Charge(d, ds, de, freq) ==
    LET os == DtMaxOf(ds, Slot2Start(d))
        oe == DtMinOf(de, Slot2End(d))
    IN  IF DtLess(os, oe) /\ HoursInSlot(os, oe) > 0
        THEN ApplyDiscount(Slot2Fee(d, HoursInSlot(os, oe)), Slot2Start(d), freq)
        ELSE 0

\* Slot 3: what the day adds to total_fee
Slot3Charge(d, ds, de, freq) ==
    LET os == DtMaxOf(ds, Slot3Start(d))
        oe == DtMinOf(de, Slot3End(d))
    IN  IF DtLess(os, oe) /\ HoursInSlot(os, oe) > 0
        THEN ApplyDiscount(Slot3Fee(d, HoursInSlot(os, oe)), Slot3Start(d), freq)
        ELSE 0

\* One pass of the while loop: what calendar day d adds to total_fee
DayFee(arr, lv, freq, d) ==
    LET ds == DayStart(arr, d)
        de == DayEnd(lv, d)
    IN  Slot1Charge(d, ds, de, freq) + Slot2Charge(d, ds, de, freq)
          + Slot3Charge(d, ds, de, freq)

\* total_fee when the loop, entered at current_day = d, ends
RECURSIVE SumFrom(_, _, _, _)
SumFrom(arr, lv, freq, d) ==
    IF d <= lv.day
    THEN DayFee(arr, lv, freq, d) + SumFrom(arr, lv, freq, d + 1)
    ELSE 0

\* calculate_fee(arrival_dt, leave_dt) as a function of its arguments
CalculateFee(arr, lv, freq) == Round2(SumFrom(arr, lv, freq, arr.day))

----------------------------------------------------------------------------
(* calculate_fee, step by step *)

NoDt == Dt(0 - 1, 0, 0)

\* The datetimes strptime('%Y-%m-%d %H:%M') yields on day d
MinuteDts(d) == {Dt(d, m * 60, 0) : m \in GridMinutes}

\* Arrivals on any day of one week, departures up to MaxStayDays days later
Arrivals == UNION {MinuteDts(d) : d \in 0..6}
Departures(arr) ==
    {lv \in UNION {MinuteDts(d) : d \in arr.day..(arr.day + MaxStayDays)} :
        DtLess(arr, lv)}

InitCalc ==
    /\ arrival_dt \in Arrivals
    /\ leave_dt \in Departures(arrival_dt)
    /\ is_frequent_parker \in BOOLEAN
    /\ pc = "while"
    /\ current_day = arrival_dt.day
    /\ total_fee = 0
    /\ day_start_dt = NoDt
    /\ day_end_dt = NoDt
    /\ overlap_start = NoDt
    /\ overlap_end = NoDt
    /\ hours_in_slot = 0
    /\ fee = 0
    /\ result = 0

InitSys ==
    /\ parked_cars = <<>>
    /\ credits = <<>>
    /\ history = <<>>

\* while current_day <= leave_dt.date(): the day's bounds
DayBounds ==
    /\ pc = "while"
    /\ current_day <= leave_dt.day
    /\ day_start_dt' = DayStart(arrival_dt, current_day)
    /\ day_end_dt' = DayEnd(leave_dt, current_day)
    /\ pc' = "slot1"
    /\ UNCHANGED <<arrival_dt, leave_dt, is_frequent_parker, current_day,
                   total_fee, overlap_start, overlap_end, hours_in_slot,
                   fee, result>>
    /\ UNCHANGED sysVars

\* Slot 1: 00:00 - 07:59 (Flat Fee)
Slot1 ==
    /\ pc = "slot1"
    /\ IF Slot1Overlaps(day_start_dt, day_end_dt)
       THEN fee' = Slot1Fee(current_day)
       ELSE fee' = fee
    /\ total_fee' = total_fee + Slot1Charge(current_day, day_start_dt,
                                            day_end_dt, is_frequent_parker)
    /\ pc' = "slot2"
    /\ UNCHANGED <<arrival_dt, leave_dt, is_frequent_parker, current_day,
                   day_start_dt, day_end_dt, overlap_start, overlap_end,
                   hours_in_slot, result>>
    /\ UNCHANGED sysVars

\* Slot 2: 08:00 - 16:59 (Hourly Rate)
Slot2 ==
    /\ pc = "slot2"
    /\ overlap_start' = DtMaxOf(day_start_dt, Slot2Start(current_day))
    /\ overlap_end' = DtMinOf(day_end_dt, Slot2End(current_day))
    /\ IF DtLess(overlap_start', overlap_end')
       THEN /\ hours_in_slot' = HoursInSlot(overlap_start', overlap_end')
            /\ IF hours_in_slot' > 0
               THEN fee' = Slot2Fee(current_day, hours_in_slot')
               ELSE fee' = fee
       ELSE UNCHANGED <<hours_in_slot, fee>>
    /\ total_fee' = total_fee + Slot2Charge(current_day, day_start_dt,
                                            day_end_dt, is_frequent_parker)
    /\ pc' = "slot3"
    /\ UNCHANGED <<arrival_dt, leave_dt, is_frequent_parker, current_day,
                   day_start_dt, day_end_dt, result>>
    /\ UNCHANGED sysVars

\* Slot 3: 17:00 - 23:59 (Hourly Rate), then current_day += timedelta(days=1)
Slot3 ==
    /\ pc = "slot3"
    /\ overlap_start' = DtMaxOf(day_start_dt, Slot3Start(current_day))
    /\ overlap_end' = DtMinOf(day_end_dt, Slot3End(current_day))
    /\ IF DtLess(overlap_start', overlap_end')
       THEN /\ hours_in_slot' = HoursInSlot(overlap_start', overlap_end')
            /\ IF hours_in_slot' > 0
               THEN fee' = Slot3Fee(current_day, hours_in_slot')
               ELSE fee' = fee
       ELSE UNCHANGED <<hours_in_slot, fee>>
    /\ total_fee' = total_fee + Slot3Charge(current_day, day_start_dt,
                                            day_end_dt, is_frequent_parker)
    /\ current_day' = current_day + 1
    /\ pc' = "while"
    /\ UNCHANGED <<arrival_dt, leave_dt, is_frequent_parker, day_start_dt,
                   day_end_dt, result>>
    /\ UNCHANGED sysVars

\* return round(total_fee, 2)
Return ==
    /\ pc = "while"
    /\ ~(current_day <= leave_dt.day)
    /\ result' = Round2(total_fee)
    /\ pc' = "done"
    /\ UNCHANGED <<arrival_dt, leave_dt, is_frequent_parker, current_day,
                   total_fee, day_start_dt, day_end_dt, overlap_start,
                   overlap_end, hours_in_slot, fee>>
    /\ UNCHANGED sysVars

NextCalc == DayBounds \/ Slot1 \/ Slot2 \/ Slot3 \/ Return

\* A call of calculate_fee on its own, the ledgers untouched
InitCall == InitCalc /\ InitSys

SpecCalc == InitCall /\ [][NextCalc]_vars

\* The step-by-step loop and CalculateFee agree
ResultIsCalculateFee ==
    pc = "done" => result = CalculateFee(arrival_dt, leave_dt, is_frequent_parker)

----------------------------------------------------------------------------
(* validators *)

DigitChars == <<"0", "1", "2", "3", "4", "5", "6", "7", "8", "9">>
UpperChars ==
    <<"A", "B", "C", "D", "E", "F", "G", "H", "I", "J", "K", "L", "M",
      "N", "O", "P", "Q", "R", "S", "T", "U", "V", "W", "X", "Y", "Z">>
LowerChars ==
    <<"a", "b", "c", "d", "e", "f", "g", "h", "i", "j", "k", "l", "m",
      "n", "o", "p", "q", "r", "s", "t", "u", "v", "w", "x", "y", "z">>

Range(f) == {f[i] : i \in DOMAIN f}
IsDigit(c) == c \in Range(DigitChars)
\* int(d) of a digit character
DigitValue(c) == (CHOOSE i \in DOMAIN DigitChars : DigitChars[i] = c) - 1

\* str.upper(), a string being a sequence of characters
UpperOf(str) ==
    [i \in DOMAIN str |->
        IF str[i] \in Range(LowerChars)
        THEN UpperChars[CHOOSE k \in DOMAIN LowerChars : LowerChars[k] = str[i]]
        ELSE str[i]]

\* validate_car_id: ^\d{2}[A-Z]-\d{4,5}$
validate_car_id(car_id) ==
    /\ Len(car_id) \in {8, 9}
    /\ IsDigit(car_id[1])
    /\ IsDigit(car_id[2])
    /\ car_id[3] \in Range(UpperChars)
    /\ car_id[4] = "-"
    /\ \A i \in 5..Len(car_id) : IsDigit(car_id[i])

\* validate_frequent_parking_number: five digits, the last being
\* (d1*2 + d2*3 + d3*4 + d4*5) % 11
validate_frequent_parking_number(number_str) ==
    /\ number_str # <<>>
    /\ \A i \in DOMAIN number_str : IsDigit(number_str[i])
    /\ Len(number_str) = 5
    /\ LET digits == [i \in 1..5 |-> DigitValue(number_str[i])]
           sum == digits[1] * 2 + digits[2] * 3 + digits[3] * 4 + digits[4] * 5
           r == sum % 11
       IN  r = digits[5]

----------------------------------------------------------------------------
(* ParkingSystem *)

\* At most MaxVisits stays are started in a run.
MaxVisits == 2

\* What is typed at the prompts
CarIdInputs ==
    { <<"5", "9", "c", "-", "1", "2", "3", "4", "5">>,
      <<"3", "0", "A", "-", "1", "2", "3", "4">>,
      <<"5", "9", "C", "1", "2", "3", "4", "5">> }
FpnInputs ==
    { <<>>, <<"1", "2", "3", "4", "7">>, <<"1", "2", "3", "4", "5">>,
      <<"1", "2", "3", "4">> }
ArrivalInputs == {Dt(0, 8 * 3600, 0), Dt(4, 23 * 3600, 0)}
LeaveInputs ==
    {Dt(0, 7 * 3600, 0), Dt(0, 9 * 3600, 0), Dt(0, 12 * 3600, 0),
     Dt(5, 3600, 0)}
PaymentInputs == {Dollars(5), Dollars(20), Dollars(25), Dollars(100)}

None == "None"

\* dict helpers: d[k] = v, del d[k], d.get(k, default)
DictSet(d, k, v) == (k :> v) @@ d
DictDel(d, k) == [x \in (DOMAIN d) \ {k} |-> d[x]]
DictGet(d, k, default) == IF k \in DOMAIN d THEN d[k] ELSE default

\* Stays started so far: the cars in the lot and the history records
Visits ==
    Cardinality(DOMAIN parked_cars)
      + Cardinality({<<c, i>> \in (DOMAIN history) \X (1..MaxVisits) :
                        i <= Len(history[c])})

\* park(): car identity, arrival time and frequent parking number are typed
park(car_input, arrival_time, fpn_input) ==
    LET car_id == UpperOf(car_input)
        is_fpn_valid ==
            fpn_input # <<>> /\ validate_frequent_parking_number(fpn_input)
        fpn == IF is_fpn_valid THEN fpn_input ELSE None
    IN  /\ Visits < MaxVisits
        /\ validate_car_id(car_id)
        /\ car_id \notin DOMAIN parked_cars
        /\ parked_cars' =
              DictSet(parked_cars, car_id,
                      [arrival_time |-> arrival_time,
                       frequent_parking_number |-> fpn])
        /\ UNCHANGED <<credits, history>>
        /\ UNCHANGED calcVars

\* Faulty variant of CreditsAfterUse: the fee is deducted in both branches
CreditsAfterUseAlwaysDeduct(cr, car_id, the_fee) ==
    LET available_credit == DictGet(cr, car_id, 0)
    IN  IF available_credit > 0
        THEN DictSet(cr, car_id, cr[car_id] - the_fee)
        ELSE cr

\* pickup(): the credit ledger entry of the car once the available credit
\* has been used on the fee (unchanged when there is no credit)
CreditsAfterUse(cr, car_id, the_fee) ==
    LET available_credit == DictGet(cr, car_id, 0)
    IN  IF available_credit > 0
        THEN IF the_fee <= available_credit
             THEN DictSet(cr, car_id, cr[car_id] - the_fee)
             ELSE DictSet(cr, car_id, 0)
        ELSE cr

\* pickup(): the amount left to pay once the available credit has been used
FeeAfterCredit(cr, car_id, the_fee) ==
    LET available_credit == DictGet(cr, car_id, 0)
    IN  IF available_credit > 0
        THEN IF the_fee <= available_credit THEN 0
             ELSE the_fee - available_credit
        ELSE the_fee

\* pickup(): the credit ledger once the payment has been taken
CreditsAfterPayment(cr, car_id, final_fee, payment) ==
    LET overpaid == payment - final_fee
    IN  IF final_fee > 0 /\ overpaid > 0
        THEN DictSet(cr, car_id, DictGet(cr, car_id, 0) + overpaid)
        ELSE cr

\* pickup(): car identity, leave time and payment amount are typed
pickup(car_input, leave, payment) ==
    LET car_id == UpperOf(car_input)
    IN  /\ car_id \in DOMAIN parked_cars
        /\ LET car_info == parked_cars[car_id]
               arrival == car_info.arrival_time
               is_frequent == car_info.frequent_parking_number # None
               the_fee == CalculateFee(arrival, leave, is_frequent)
               final_fee == FeeAfterCredit(credits, car_id, the_fee)
           IN  /\ DtLess(arrival, leave)
               /\ final_fee > 0 => payment >= final_fee
               /\ credits' =
                     CreditsAfterPayment(
                         CreditsAfterUse(credits, car_id, the_fee),
                         car_id, final_fee, payment)
               /\ history' =
                     DictSet(history, car_id,
                             Append(DictGet(history, car_id, <<>>),
                                    [arrival |-> arrival, leave |-> leave,
                                     fee_paid |-> final_fee]))
               /\ parked_cars' = DictDel(parked_cars, car_id)
        /\ UNCHANGED calcVars

Park ==
    \E car_input \in CarIdInputs, arrival_time \in ArrivalInputs,
       fpn_input \in FpnInputs :
        park(car_input, arrival_time, fpn_input)

Pickup ==
    \E car_input \in CarIdInputs, leave \in LeaveInputs,
       payment \in PaymentInputs :
        pickup(car_input, leave, payment)

\* The calculator is idle while the menu loop runs
InitIdle ==
    /\ arrival_dt = NoDt
    /\ leave_dt = NoDt
    /\ is_frequent_parker = FALSE
    /\ pc = "idle"
    /\ current_day = 0
    /\ total_fee = 0
    /\ day_start_dt = NoDt
    /\ day_end_dt = NoDt
    /\ overlap_start = NoDt
    /\ overlap_end = NoDt
    /\ hours_in_slot = 0
    /\ fee = 0
    /\ result = 0

Init == InitIdle /\ InitSys
Next == Park \/ Pickup
Spec == Init /\ [][Next]_vars

----------------------------------------------------------------------------
(* Properties of calculate_fee, checked under SpecCalc *)

\* The minute-granular datetime of day d at h:m
At(d, h, m) == Dt(d, h * 3600 + m * 60, 0)

Done == pc = "done"
SameDay == arrival_dt.day = leave_dt.day
\* The whole stay lies inside 08:00 - 16:59, resp. 17:00 - 23:59, of one day
InsideSlot2 ==
    /\ SameDay
    /\ DtLeq(At(arrival_dt.day, 8, 0), arrival_dt)
    /\ DtLeq(leave_dt, At(arrival_dt.day, 16, 59))
InsideSlot3 ==
    /\ SameDay
    /\ DtLeq(At(arrival_dt.day, 17, 0), arrival_dt)
    /\ DtLeq(leave_dt, At(arrival_dt.day, 23, 59))
StaySeconds == DiffSec(arrival_dt, leave_dt)

\* C1: the fee returned is >= 0 and a whole number of cents, and the final
\* round(total_fee, 2) discards nothing: the sum is whole cents already.
C1_FeeNonNegativeWholeCents ==
    Done => /\ result >= 0
            /\ result % Cents(1) = 0
            /\ result = total_fee

\* A frequent parker's multi-day fee that is not a whole number of dollars
C1_Witness ==
    /\ Done
    /\ is_frequent_parker
    /\ leave_dt.day > arrival_dt.day
    /\ result % Dollars(1) # 0

\* The daytime rate of the rate table: price per hour and cap, by weekday
DaytimePrice(w) == IF w <= 4 THEN Dollars(10) ELSE IF w = 5 THEN Dollars(3) ELSE Dollars(2)
DaytimeCap(w) == IF w <= 4 THEN 2 ELSE IF w = 5 THEN 4 ELSE 8

\* C2: a non-frequent stay inside 08:00 - 16:59 of one day costs h * p up to
\* the cap and cap * p + (h - cap) * p * 2 beyond it, h being the rounded
\* hours of the stay, and nothing else; Monday 08:00 - 10:00 costs 20.00 and
\* Monday 08:00 - 12:00 costs 60.00.
C2_DaytimeTieredFee ==
    (Done /\ ~is_frequent_parker /\ InsideSlot2) =>
        LET w == Weekday(arrival_dt.day)
            p == DaytimePrice(w)
            cap == DaytimeCap(w)
            h == RoundHours(StaySeconds, 0)
        IN  /\ result = IF h <= cap THEN h * p
                        ELSE cap * p + (h - cap) * p * 2
            /\ (arrival_dt = At(0, 8, 0) /\ leave_dt = At(0, 10, 0))
                  => result = Dollars(20)
            /\ (arrival_dt = At(0, 8, 0) /\ leave_dt = At(0, 12, 0))
                  => result = Dollars(60)

\* Monday 08:00 - 12:00, non-frequent: two hours beyond the cap, 60.00
C2_Witness ==
    /\ Done
    /\ ~is_frequent_parker
    /\ arrival_dt = At(0, 8, 0)
    /\ leave_dt = At(0, 12, 0)
    /\ result = Dollars(60)

\* C3: a non-frequent stay from 17:00 or later on day d to day d + 1, after
\* 00:00 and at 07:59 at the latest, costs the rounded hours from the arrival
\* to the end of day d's evening slot at 5.00 each, plus the flat 20.00 of day
\* d + 1 once; Friday 23:00 to Saturday 01:00 costs 25.00.
C3_OvernightFee ==
    (/\ Done
     /\ ~is_frequent_parker
     /\ arrival_dt.sec >= 17 * 3600
     /\ leave_dt.day = arrival_dt.day + 1
     /\ leave_dt.sec > 0
     /\ leave_dt.sec <= 7 * 3600 + 59 * 60) =>
        /\ result =
              RoundHours(DiffSec(arrival_dt, Dt(arrival_dt.day, 86399, 0)), 0)
                  * Dollars(5)
                + Dollars(20)
        /\ (arrival_dt = At(4, 23, 0) /\ leave_dt = At(5, 1, 0))
              => result = Dollars(25)

\* Friday 23:00 to Saturday 01:00, non-frequent: 5.00 + 20.00
C3_Witness ==
    /\ Done
    /\ ~is_frequent_parker
    /\ arrival_dt = At(4, 23, 0)
    /\ leave_dt = At(5, 1, 0)
    /\ result = Dollars(25)

\* What a non-frequent parker is charged for slot 1 and slot 3 (night and
\* evening), and for slot 2 (daytime), over the days d .. leave day
RECURSIVE NightEveningCharges(_, _, _)
NightEveningCharges(arr, lv, d) ==
    IF d > lv.day THEN 0
    ELSE LET ds == DtMaxOf(arr, Dt(d, 0, 0))
             de == DtMinOf(lv, Dt(d, 86399, 999999))
         IN  Slot1Charge(d, ds, de, FALSE) + Slot3Charge(d, ds, de, FALSE)
               + NightEveningCharges(arr, lv, d + 1)
RECURSIVE DaytimeCharges(_, _, _)
DaytimeCharges(arr, lv, d) ==
    IF d > lv.day THEN 0
    ELSE LET ds == DtMaxOf(arr, Dt(d, 0, 0))
             de == DtMinOf(lv, Dt(d, 86399, 999999))
         IN  Slot2Charge(d, ds, de, FALSE) + DaytimeCharges(arr, lv, d + 1)

\* C4: a frequent parker pays 0.5 of the non-frequent flat and evening
\* charges plus 0.9 of the non-frequent daytime charges of the same stay; a
\* frequent parker's stay within 00:00 - 07:59 of a Sunday costs 10.00.
C4_FrequentDiscountPerSlot ==
    (Done /\ is_frequent_parker) =>
        /\ 10 * result =
              5 * NightEveningCharges(arrival_dt, leave_dt, arrival_dt.day)
                + 9 * DaytimeCharges(arrival_dt, leave_dt, arrival_dt.day)
        /\ (/\ SameDay
            /\ Weekday(arrival_dt.day) = 6
            /\ DtLeq(leave_dt, At(arrival_dt.day, 7, 59)))
              => result = Dollars(10)

\* A frequent parker charged in all three slots of a day
C4_Witness ==
    /\ Done
    /\ is_frequent_parker
    /\ NightEveningCharges(arrival_dt, leave_dt, arrival_dt.day) > Dollars(20)
    /\ DaytimeCharges(arrival_dt, leave_dt, arrival_dt.day) > 0
    /\ result > 0

\* The fees of separate calls, one per calendar day's occupied portion
RECURSIVE PerDayCalls(_, _, _, _)
PerDayCalls(arr, lv, freq, d) ==
    IF d > lv.day THEN 0
    ELSE CalculateFee(DtMaxOf(arr, Dt(d, 0, 0)),
                      DtMinOf(lv, Dt(d, 86399, 999999)), freq)
           + PerDayCalls(arr, lv, freq, d + 1)

\* C5: the fee of a stay over several calendar days is the sum of the fees of
\* separate calls on each day's occupied portion.
C5_SumOfPerDayFees ==
    (Done /\ leave_dt.day > arrival_dt.day) =>
        result = PerDayCalls(arrival_dt, leave_dt, is_frequent_parker,
                             arrival_dt.day)

\* A stay over three calendar days, each of which is charged
C5_Witness ==
    /\ Done
    /\ leave_dt.day = arrival_dt.day + 2
    /\ \A d \in arrival_dt.day..leave_dt.day :
          DayFee(arrival_dt, leave_dt, is_frequent_parker, d) > 0
    /\ result > 0

\* C9: for a fixed arrival and flag, no earlier departure costs more.
C9_MonotoneInDeparture ==
    Done =>
        \A d1 \in Departures(arrival_dt) :
            DtLeq(d1, leave_dt) =>
                CalculateFee(arrival_dt, d1, is_frequent_parker) <= result

\* A later departure that costs strictly more than an earlier one
C9_Witness ==
    /\ Done
    /\ \E d1 \in Departures(arrival_dt) :
          /\ DtLess(d1, leave_dt)
          /\ CalculateFee(arrival_dt, d1, is_frequent_parker) < result

\* The slot 1 window [00:00, 08:00) cut to the occupied portion of the day
Slot1WindowStart == DtMaxOf(day_start_dt, Dt(current_day, 0, 0))
Slot1WindowEnd == DtMinOf(day_end_dt, Dt(current_day, 8 * 3600, 0))

\* An hourly slot with an overlap of zero or negative duration adds nothing
HourlySlotsChargeNoEmptyOverlap ==
    /\ (pc = "slot2" /\ ~DtLess(overlap_start', overlap_end'))
          => total_fee' = total_fee
    /\ (pc = "slot3" /\ ~DtLess(overlap_start', overlap_end'))
          => total_fee' = total_fee

\* C6 (as stated): on every day processed, each of the three slots adds
\* nothing when its overlap with the occupied portion has zero or negative
\* duration, the flat-fee slot on a departure at exactly 00:00 included.
C6_EmptyOverlapChargesNothing ==
    [][/\ HourlySlotsChargeNoEmptyOverlap
       /\ (pc = "slot1" /\ ~DtLess(Slot1WindowStart, Slot1WindowEnd))
             => total_fee' = total_fee]_vars

\* C6 (amended): an hourly slot with an overlap of zero or negative duration
\* adds nothing, and the flat-fee slot adds nothing when the occupied portion
\* starts after 07:59; on a departure day where the stay ends at exactly
\* 00:00 the flat-fee slot, whose overlap has zero duration, adds its flat
\* fee: 20.00, or 10.00 for a frequent parker.
C6_EmptyOverlapHourlyOnly ==
    [][/\ HourlySlotsChargeNoEmptyOverlap
       /\ (pc = "slot1" /\ day_start_dt.sec > 7 * 3600 + 59 * 60)
             => total_fee' = total_fee
       /\ (pc = "slot1" /\ day_end_dt = Dt(current_day, 0, 0))
             => total_fee' = total_fee
                   + (IF is_frequent_parker THEN Dollars(10) ELSE Dollars(20))
      ]_vars

\* Slot 1 has just run on a departure day where the stay ends at 00:00
C6_Witness ==
    /\ pc = "slot2"
    /\ current_day = leave_dt.day
    /\ leave_dt.sec = 0
    /\ day_end_dt = Dt(current_day, 0, 0)
    /\ fee = Dollars(20)
    /\ total_fee >= Dollars(10)

\* The hourly slot that has just run, and the seconds of its overlap
AfterSlot2 == pc = "slot3"
AfterSlot3 == pc = "while" /\ current_day > arrival_dt.day
OverlapSeconds ==
    IF DtLess(overlap_start, overlap_end)
    THEN DiffSec(overlap_start, overlap_end)
    ELSE 0
Slot2Price == DaytimePrice(Weekday(current_day))

\* C7 (as stated): in both hourly slots an overlap of exactly 30 minutes is
\* rounded to 1 hour and charged one hour; a non-frequent Monday stay
\* 09:00 - 09:30 costs 10.00 and 18:00 - 18:30 costs 5.00.
C7_HalfHourRoundsToOne ==
    /\ (AfterSlot2 /\ OverlapSeconds = 1800)
          => (hours_in_slot = 1 /\ fee = Slot2Price)
    /\ (AfterSlot3 /\ OverlapSeconds = 1800)
          => (hours_in_slot = 1 /\ fee = Dollars(5))
    /\ (Done /\ ~is_frequent_parker /\ arrival_dt = At(0, 9, 0)
             /\ leave_dt = At(0, 9, 30))
          => result = Dollars(10)
    /\ (Done /\ ~is_frequent_parker /\ arrival_dt = At(0, 18, 0)
             /\ leave_dt = At(0, 18, 30))
          => result = Dollars(5)

\* C7 (amended): in both hourly slots an overlap of exactly 30 minutes is
\* rounded to 0 hours and charged nothing; a stay of 30 minutes inside one
\* hourly slot costs 0.00.
C7_HalfHourRoundsToZero ==
    /\ ((AfterSlot2 \/ AfterSlot3) /\ OverlapSeconds = 1800)
          => hours_in_slot = 0
    /\ (Done /\ (InsideSlot2 \/ InsideSlot3) /\ StaySeconds = 1800)
          => result = 0

\* Slot 2 has just run on an overlap of 30 minutes, and has added nothing
C7_Witness ==
    /\ AfterSlot2
    /\ OverlapSeconds = 1800
    /\ arrival_dt = At(0, 9, 0)
    /\ leave_dt = At(0, 9, 30)
    /\ hours_in_slot = 0
    /\ total_fee = 0

\* C8 (as stated): in both hourly slots an overlap of exactly 90 minutes is
\* counted as 1 hour; a non-frequent Monday stay 09:00 - 10:30 costs 10.00
\* and 18:00 - 19:30 costs 5.00.
C8_NinetyMinutesIsOneHour ==
    /\ (AfterSlot2 /\ OverlapSeconds = 5400)
          => (hours_in_slot = 1 /\ fee = Slot2Price)
    /\ (AfterSlot3 /\ OverlapSeconds = 5400)
          => (hours_in_slot = 1 /\ fee = Dollars(5))
    /\ (Done /\ ~is_frequent_parker /\ arrival_dt = At(0, 9, 0)
             /\ leave_dt = At(0, 10, 30))
          => result = Dollars(10)
    /\ (Done /\ ~is_frequent_parker /\ arrival_dt = At(0, 18, 0)
             /\ leave_dt = At(0, 19, 30))
          => result = Dollars(5)

\* C8 (amended): in both hourly slots an overlap of exactly 90 minutes is
\* counted as 2 hours; a non-frequent Monday stay 09:00 - 10:30 costs
\* 2 * 10.00 = 20.00 and 18:00 - 19:30 costs 2 * 5.00 = 10.00.
C8_NinetyMinutesIsTwoHours ==
    /\ (AfterSlot2 /\ OverlapSeconds = 5400)
          => (hours_in_slot = 2 /\ fee = 2 * Slot2Price)
    /\ (AfterSlot3 /\ OverlapSeconds = 5400)
          => (hours_in_slot = 2 /\ fee = Dollars(10))
    /\ (Done /\ ~is_frequent_parker /\ arrival_dt = At(0, 9, 0)
             /\ leave_dt = At(0, 10, 30))
          => result = Dollars(20)
    /\ (Done /\ ~is_frequent_parker /\ arrival_dt = At(0, 18, 0)
             /\ leave_dt = At(0, 19, 30))
          => result = Dollars(10)

\* Slot 3 has just run on an overlap of 90 minutes, counted as two hours
C8_Witness ==
    /\ AfterSlot3
    /\ OverlapSeconds = 5400
    /\ arrival_dt = At(0, 18, 0)
    /\ leave_dt = At(0, 19, 30)
    /\ hours_in_slot = 2
    /\ total_fee = Dollars(10)

----------------------------------------------------------------------------
(* Properties of ParkingSystem, checked under Spec *)

\* C10: from empty ledgers, after any park and pickup operations, every
\* car's credit balance is >= 0.
C10_CreditsNonNegative == \A c \in DOMAIN credits : credits[c] >= 0

\* A car whose credit did not cover the fee of its second stay: the credit
\* was used up, the rest was paid exactly
C10_Witness ==
    \E c \in DOMAIN history :
        /\ Len(history[c]) = 2
        /\ history[c][2].fee_paid > 0
        /\ c \in DOMAIN credits
        /\ credits[c] = 0

====
